---- MODULE Spec2Model ----
(***************************************************************************)
(* Model of nx/common/workers.py: the SIGHUP checkpoint/restart state      *)
(* machine of Worker, the per-packet wrapper of PacketSnifferWorker and    *)
(* the batch building of PacketProcessor, with the packet fingerprint.     *)
(*                                                                         *)
(* One worker process is modelled statement by statement (pc), so that a   *)
(* SIGHUP can be delivered between any two statements.  A raised exception *)
(* is the variable exc; Unwind gives the handler Python's try/finally      *)
(* nesting transfers control to.                                           *)
(***************************************************************************)
EXTENDS Integers, Sequences, FiniteSets, TLC

\* ------------------------------------------------------------------ bounds
\* packets the capture facility delivers in one behaviour
MaxPackets == 2
\* SIGHUPs delivered in one behaviour
MaxSignals == 2
\* re-executions of the process image in one behaviour
MaxRestarts == 1
\* worker processes that write to one store
MaxWorkers == 2
\* batches those processes submit in one behaviour
MaxBatches == 2

\* ------------------------------------------------------- program constants
\* sentinels written by _packet_hash_bytes
IP_ID_SENTINEL == 57005
IP_CHKSUM_SENTINEL == 48879
\* ethertypes and the IPv6 next-header value of an encapsulated IPv4 datagram
ETH_P_IP == 2048
ETH_P_ARP == 2054
ETH_P_IPV6 == 34525
IPPROTO_IPIP == 4
\* time-to-live the extension of the test puts on a packet record
PACKET_TTL == 2419200

WORKER_NAME == "SUSAN"

\* a lower() that leaves its argument as it is
lower_noop(s) == s

\* str.lower() on the strings of the model
lower(s) ==
    CASE s = "SUSAN" -> "susan"
      [] s = "00:0D:F7:12:CA:FE" -> "00:0d:f7:12:ca:fe"
      [] OTHER -> s

\* RedisClientWorker.__init__: self.name
name == lower(WORKER_NAME)

\* -------------------------------------------------------------- dissection
\* A frame is a sequence of numbers: source address, ethertype, then the
\* payload; an IPv4 header is <<id, chksum>>, an IPv6 header <<next header>>.
Layer(n, f) == [name |-> n, fields |-> f]

RECURSIVE Dissect(_, _)
\* scapy's dissection of a payload announced by the protocol number type
Dissect(type, data) ==
    IF data = <<>> THEN <<>>
    ELSE IF type = ETH_P_IP /\ Len(data) >= 2
      THEN <<Layer("IP", SubSeq(data, 1, 2))>>
             \o (IF Len(data) > 2
                   THEN <<Layer("Raw", SubSeq(data, 3, Len(data)))>> ELSE <<>>)
    ELSE IF type = ETH_P_ARP THEN <<Layer("ARP", data)>>
    ELSE IF type = ETH_P_IPV6
      THEN <<Layer("IPv6", <<data[1]>>)>>
             \o Dissect(IF data[1] = IPPROTO_IPIP THEN ETH_P_IP ELSE 0, Tail(data))
    ELSE <<Layer("Raw", data)>>

\* Ether(packet_bytes): parse bytes as an Ethernet frame
Ether(data) ==
    IF Len(data) < 2 THEN <<Layer("Raw", data)>>
    ELSE <<Layer("Ether", SubSeq(data, 1, 2))>>
           \o Dissect(data[2], SubSeq(data, 3, Len(data)))

\* a getlayer that looks at the payload of the first layer only
getlayer_shallow(layers, cls) ==
    IF Len(layers) >= 2 /\ layers[2].name = cls THEN 2 ELSE 0

\* Packet.getlayer(cls): index of the first layer of that class at any depth
\* of the layer stack, 0 for None
getlayer(layers, cls) ==
    IF \E i \in 1..Len(layers) : layers[i].name = cls
      THEN CHOOSE i \in 1..Len(layers) :
             /\ layers[i].name = cls
             /\ \A j \in 1..(i - 1) : layers[j].name # cls
      ELSE 0

RECURSIVE bytes(_)
\* bytes(packet): serialise a layer stack
bytes(layers) ==
    IF layers = <<>> THEN <<>> ELSE Head(layers).fields \o bytes(Tail(layers))

\* hashlib.blake2s(...).hexdigest(): an injective digest of its input
blake2s(data) == <<"blake2s", data>>

\* ---------------------------------------------------------------- packets
\* What the capture facility can deliver: link says whether the packet has
\* an Ether layer view, src is that layer's source address as it reports it.
Captured ==
    { [link |-> TRUE, src |-> "00:0D:F7:12:CA:FE", original |-> <<1, ETH_P_IP, 1, 3, 7>>],
      [link |-> TRUE, src |-> "00:0d:f7:12:ca:fe", original |-> <<1, ETH_P_IP, 2, 4, 7>>],
      [link |-> TRUE, src |-> "00:0d:f7:12:ca:fe", original |-> <<1, ETH_P_ARP, 7>>],
      [link |-> TRUE, src |-> "00:0d:f7:12:ca:fe", original |-> <<1, ETH_P_IPV6, 17, 7>>],
      [link |-> TRUE, src |-> "00:0d:f7:12:ca:fe",
       original |-> <<1, ETH_P_IPV6, IPPROTO_IPIP, 1, 3, 7>>],
      [link |-> FALSE, src |-> "", original |-> <<1, ETH_P_IP, 1, 3, 7>>] }

NoPacket == [link |-> FALSE, src |-> "", original |-> <<>>, time |-> 0, sniffed_on |-> ""]

\* ------------------------------------------------------------ sentinels
Unset == [kind |-> "Unset", src |-> ""]
None == [kind |-> "None", src |-> ""]
NoHash == <<"None">>
NoMac == "None"
NoExc == [type |-> "None", origin |-> ""]
Error == [type |-> "Exception", origin |-> "step"]
RestartWorker(origin) == [type |-> "RestartWorker", origin |-> origin]

\* ------------------------------------------------- store operations (batch)
\* An operation queued on the pipeline: the command, its key and its arguments.
Op(cmd, key, val) == [cmd |-> cmd, key |-> key, val |-> val]
hset(key, mapping) == Op("hset", key, mapping)
hsetnx(key, field, value) == Op("hsetnx", key, <<field, value>>)
hincrby(key, field, amount) == Op("hincrby", key, <<field, amount>>)
sadd(key, member) == Op("sadd", key, member)
expire(key, ttl) == Op("expire", key, ttl)

\* hash-map update: the fields of new overwrite those of old
Merge(old, new) ==
    [f \in (DOMAIN old) \cup (DOMAIN new) |-> IF f \in DOMAIN new THEN new[f] ELSE old[f]]

HasField(d, key, field) == key \in DOMAIN d /\ field \in DOMAIN d[key]

Put(d, key, value) == [k \in (DOMAIN d) \cup {key} |-> IF k = key THEN value ELSE d[k]]

\* The store's execution of one operation (SET-FIELDS, SET-FIELD-IF-ABSENT,
\* INCREMENT-FIELD, ADD-TO-SET, SET-EXPIRY).  d maps a key to a hash map or
\* to a set; the time-to-live of a key is kept in the hash map <<"ttl">>.
ApplyOp(d, o) ==
    CASE o.cmd = "hset" ->
           Put(d, o.key, IF o.key \in DOMAIN d THEN Merge(d[o.key], o.val) ELSE o.val)
      [] o.cmd = "hsetnx" ->
           IF HasField(d, o.key, o.val[1]) THEN d
           ELSE Put(d, o.key, IF o.key \in DOMAIN d
                                THEN Merge(d[o.key], o.val[1] :> o.val[2])
                                ELSE o.val[1] :> o.val[2])
      [] o.cmd = "hincrby" ->
           IF HasField(d, o.key, o.val[1])
             THEN Put(d, o.key, Merge(d[o.key], o.val[1] :> (d[o.key][o.val[1]] + o.val[2])))
             ELSE Put(d, o.key, IF o.key \in DOMAIN d
                                  THEN Merge(d[o.key], o.val[1] :> o.val[2])
                                  ELSE o.val[1] :> o.val[2])
      [] o.cmd = "sadd" ->
           Put(d, o.key, IF o.key \in DOMAIN d THEN d[o.key] \cup {o.val} ELSE {o.val})
      [] o.cmd = "expire" ->
           IF o.key \in DOMAIN d
             THEN Put(d, <<"ttl">>, IF <<"ttl">> \in DOMAIN d
                                      THEN Merge(d[<<"ttl">>], o.key :> o.val)
                                      ELSE o.key :> o.val)
             ELSE d

RECURSIVE ApplyBatch(_, _)
\* the store's execution of a submitted batch, in order
ApplyBatch(d, ops) ==
    IF ops = <<>> THEN d ELSE ApplyBatch(ApplyOp(d, Head(ops)), Tail(ops))

\* nothing returned (Python's None), and what a callback may return
NoResult == "None"
Results == {NoResult, "nx.example.com."}

\* run, lines 154-167: the value of self._run() at line 160 is not kept and
\* run has no return statement, so that it returns None whatever v is;
\* _process_packet and the wrapper return what run returned (lines 132, 140)
run_returns(v) == NoResult

\* the invocation vector of the process
Invocation == <<"/usr/bin/python3", "susan.py", "--verbose">>

\* the worker processes that share the store
Workers == 1..MaxWorkers

\* ------------------------------------------------------------------ state
VARIABLES
    pc,                  \* the statement the process is at
    waiting_to_restart,  \* Worker._waiting_to_restart
    exc,                 \* the exception being propagated, NoExc if none
    packet,              \* PacketProcessor.packet
    pipeline,            \* PacketProcessor.pipeline: the operations queued
    issue_categories,    \* PacketProcessor._issue_categories
    ether_layer,         \* PacketProcessor._ether_layer
    packet_hash,         \* PacketProcessor.packet_hash
    src_mac,             \* PacketProcessor.src_mac
    hash_bytes,          \* the value _packet_hash_bytes returned
    issue_i,             \* position of the for loop over _issue_categories
    db,                  \* the contents of the store
    executes,            \* history: calls of pipeline.execute() for this packet
    faults,              \* history: where statements raised for this packet
    clock,               \* packets delivered so far (their timestamps)
    signals,             \* SIGHUPs delivered so far
    received,            \* history: SIGHUPs this process image has received
    restarts,            \* re-executions so far
    faulty,              \* a statement raised while a packet was processed
    callback_result,     \* the value worker.process_packet returned
    prn_result,          \* the value _wrapped_process_packet returns to sniff()
    argv,                \* [sys.executable] + sys.argv of the process image
    cmd,                 \* Worker._cmd
    inflight,            \* per worker process: operations of its batch not yet executed
    submitted            \* history: batches submitted per packet key

vars == <<pc, waiting_to_restart, exc, packet, pipeline, issue_categories,
          ether_layer, packet_hash, src_mac, hash_bytes, issue_i, db,
          executes, faults, clock, signals, received, restarts, faulty,
          callback_result, prn_result, argv, cmd, inflight, submitted>>

\* the fields of one PacketProcessor
processor == <<packet, pipeline, issue_categories, ether_layer, packet_hash,
               src_mac, hash_bytes, issue_i>>

\* the history of the packet being processed
history == <<executes, faults>>

\* the environment's counters
counters == <<clock, signals, received, restarts, faulty>>

\* the values on their way back to sniff()
returned == <<callback_result, prn_result>>

\* how the process was started and what Worker.run kept of it
invocation == <<argv, cmd>>

\* the other worker processes that write to the store
shared == <<inflight, submitted>>

\* --------------------------------------------------------- control flow
\* the statements of PacketProcessor._run and of what it calls
RunBody == {"_run", "_packet_hash_bytes", "_packet_hash", "src_mac",
            "raw_hset", "raw_hsetnx", "raw_hincrby", "ether_check",
            "dev_sadd", "dev_hset", "dev_hsetnx", "dev_index",
            "process_packet", "process_packet_body"}

\* the statements of PacketProcessor.run
InRun == {"run"} \cup RunBody \cup {"finally_sadd", "finally_hset", "finally_execute", "execute"}

\* the statements of PacketSnifferWorker._wrapped_process_packet
InWrapper == InRun \cup {"except", "finally_checkpoint"}

\* run() without the try/finally around the heartbeat: what is raised there
\* leaves run() at once
Unwind_heartbeat_unprotected(p) ==
    CASE p \in RunBody -> "finally_sadd"
      [] p = "finally_sadd" -> "finally_hset"
      [] p \in {"run", "finally_hset", "finally_execute", "execute"} -> "except"
      [] p = "except" -> "finally_checkpoint"
      [] p \in {"sniff", "finally_checkpoint"} -> "main"
      [] OTHER -> "exited"

\* run() with the sadd loop after _run() instead of in a finally clause
Unwind_sadd_unprotected(p) ==
    CASE p \in RunBody \cup {"finally_sadd"} -> "finally_hset"
      [] p = "finally_hset" -> "finally_execute"
      [] p \in {"run", "finally_execute", "execute"} -> "except"
      [] p = "except" -> "finally_checkpoint"
      [] p \in {"sniff", "finally_checkpoint"} -> "main"
      [] OTHER -> "exited"

\* run() with the heartbeat after the sadd loop in the same finally clause
Unwind_sadd_skips_heartbeat(p) ==
    CASE p \in RunBody -> "finally_sadd"
      [] p \in {"finally_sadd", "finally_hset"} -> "finally_execute"
      [] p \in {"run", "finally_execute", "execute"} -> "except"
      [] p = "except" -> "finally_checkpoint"
      [] p \in {"sniff", "finally_checkpoint"} -> "main"
      [] OTHER -> "exited"

\* Where an exception raised at statement p is handled: the finally clauses
\* of run nest as sadd-loop, heartbeat, execute; the wrapper has a bare
\* except and a finally; Worker.main catches what leaves run().
Unwind(p) ==
    CASE p \in RunBody -> "finally_sadd"
      [] p = "finally_sadd" -> "finally_hset"
      [] p = "finally_hset" -> "finally_execute"
      [] p \in {"run", "finally_execute", "execute"} -> "except"
      [] p = "except" -> "finally_checkpoint"
      [] p \in {"sniff", "finally_checkpoint"} -> "main"
      [] OTHER -> "exited"

\* a wrapper without the except clause
Caught_nothing(e) == FALSE

\* the bare except clause of _wrapped_process_packet catches every exception
Caught(e) == TRUE

\* the except clause of Worker.main
MainCatches(e) == e.type = "RestartWorker"

\* a checkpoint that is skipped after a packet that raised
checkpoint_worker_on_success == waiting_to_restart /\ faults = {}

\* _checkpoint_worker raises RestartWorker exactly when the flag is set
checkpoint_worker == waiting_to_restart

\* The statement at pc raises an ordinary exception.  Any statement of any
\* packet may; the packet during which one did is the last one delivered in
\* the behaviour (faulty), which bounds what the store can hold.
Raises ==
    /\ exc' = Error
    /\ pc' = Unwind(pc)
    /\ faults' = faults \cup {pc}
    /\ faulty' = TRUE
    /\ UNCHANGED <<clock, signals, received, restarts, returned, invocation, shared>>

\* the statement at pc completes and control goes to statement to
Goto(to) ==
    /\ pc' = to
    /\ UNCHANGED returned
    /\ UNCHANGED <<exc, faults, counters, invocation, shared>>

\* a fresh PacketProcessor (__init__) with nothing queued
FreshProcessor(p) ==
    /\ packet' = p
    /\ pipeline' = <<>>
    /\ issue_categories' = <<>>
    /\ ether_layer' = Unset
    /\ packet_hash' = NoHash
    /\ src_mac' = NoMac
    /\ hash_bytes' = <<>>
    /\ issue_i' = 1
    /\ executes' = 0
    /\ faults' = {}
    /\ callback_result' = NoResult
    /\ prn_result' = NoResult

Init ==
    /\ pc = "sniff"
    /\ waiting_to_restart = FALSE
    /\ exc = NoExc
    /\ packet = NoPacket
    /\ pipeline = <<>>
    /\ issue_categories = <<>>
    /\ ether_layer = Unset
    /\ packet_hash = NoHash
    /\ src_mac = NoMac
    /\ hash_bytes = <<>>
    /\ issue_i = 1
    /\ db = <<>>
    /\ executes = 0
    /\ faults = {}
    /\ clock = 0
    /\ signals = 0
    /\ received = 0
    /\ restarts = 0
    /\ faulty = FALSE
    /\ callback_result = NoResult
    /\ prn_result = NoResult
    /\ argv = Invocation
    /\ cmd = argv
    /\ inflight = [w \in Workers |-> <<>>]
    /\ submitted = <<>>

\* ------------------------------------------------------------ capture loop
\* sniff() receives a packet and calls prn: _wrapped_process_packet enters its
\* try, _process_packet constructs the PacketProcessor and calls run()
sniff ==
    /\ pc = "sniff"
    /\ clock < MaxPackets
    /\ ~faulty
    /\ \E p \in Captured :
         FreshProcessor([link |-> p.link, src |-> p.src, original |-> p.original,
                         time |-> clock + 1, sniffed_on |-> "wlx0023cafebabe"])
    /\ pc' = "run"
    /\ clock' = clock + 1
    /\ UNCHANGED <<waiting_to_restart, exc, db, signals, received, restarts, faulty,
                   invocation, shared>>

\* run, lines 155-156: the heartbeat pair and the pipeline are created
run ==
    /\ pc = "run"
    /\ pipeline' = <<>>
    /\ Goto("_run")
    /\ UNCHANGED <<waiting_to_restart, packet, issue_categories, ether_layer,
                   packet_hash, src_mac, hash_bytes, issue_i, db, executes>>

\* ------------------------------------------------------ PacketProcessor
\* _run, line 170: self.common_fields
common_fields ==
    [last_seen |-> packet.time, last_seen_by |-> name, last_seen_by_susan |-> packet.time]

\* _run, line 181 and line 185
packet_key == <<"pkt", packet_hash>>
mac_key == <<"mac", src_mac>>

\* record_issue: the name of the issue set of a category
record_issue(category) == <<"unhandled:pkts", category>>

\* the ether_layer property, lines 206-210: packet.getlayer(Ether)
EtherLayerOf(p) == IF p.link THEN [kind |-> "Ether", src |-> p.src] ELSE None

\* a _packet_hash_bytes that leaves the header checksum of the copy as it is
PacketHashBytes_keeps_chksum(p, layer) ==
    IF layer = None THEN [data |-> p.original, issues |-> <<>>]
    ELSE LET copy_packet == Ether(p.original)
             ip == getlayer(copy_packet, "IP")
         IN  IF ip = 0
               THEN [data |-> p.original,
                     issues |-> IF getlayer(copy_packet, "ARP") = 0
                                  THEN <<record_issue("ether_payload")>> ELSE <<>>]
               ELSE [data |-> bytes([copy_packet EXCEPT ![ip].fields[1] = IP_ID_SENTINEL]),
                     issues |-> <<>>]

\* _packet_hash_bytes, lines 215-230: the bytes to hash and the issues recorded
PacketHashBytes(p, layer) ==
    IF layer = None THEN [data |-> p.original, issues |-> <<>>]
    ELSE LET copy_packet == Ether(p.original)
             ip == getlayer(copy_packet, "IP")
         IN  IF ip = 0
               THEN [data |-> p.original,
                     issues |-> IF getlayer(copy_packet, "ARP") = 0
                                  THEN <<record_issue("ether_payload")>> ELSE <<>>]
               ELSE [data |-> bytes([copy_packet EXCEPT
                                       ![ip].fields = <<IP_ID_SENTINEL, IP_CHKSUM_SENTINEL>>]),
                     issues |-> <<>>]

\* _record_raw_packet, lines 233-237: the fields of the packet record
RawPacketFields ==
    LET fields == Merge(common_fields,
                        [raw_bytes |-> packet.original, last_sniffed_on |-> packet.sniffed_on])
    IN  IF src_mac # NoMac THEN Merge(fields, [last_seen_from |-> src_mac]) ELSE fields

\* the operations the extension of the test appends (test_susan.py, 86-88 and 117)
ExtensionOps ==
    <<hset(mac_key, [ipv4 |-> "1.2.3.4"]), expire(packet_key, PACKET_TTL)>>

\* a statement of the body that queues op and goes on to statement to
Queue(op, to) ==
    /\ pipeline' = Append(pipeline, op)
    /\ Goto(to)
    /\ UNCHANGED <<waiting_to_restart, packet, issue_categories, ether_layer,
                   packet_hash, src_mac, hash_bytes, issue_i, db, executes>>

\* the statement at pc raises and leaves every field as it is
Fails ==
    /\ Raises
    /\ UNCHANGED <<waiting_to_restart, processor, db, executes>>

\* _run, lines 170-178: common_fields; no Ether layer is an issue
run_first_layer ==
    /\ pc = "_run"
    /\ \/ /\ ether_layer' = EtherLayerOf(packet)
          /\ issue_categories' =
               IF EtherLayerOf(packet) = None
                 THEN Append(issue_categories, record_issue("first_layer"))
                 ELSE issue_categories
          /\ Goto("_packet_hash_bytes")
          /\ UNCHANGED <<waiting_to_restart, packet, pipeline, packet_hash, src_mac,
                         hash_bytes, issue_i, db, executes>>
       \/ Fails

\* _run, line 180: the call of _packet_hash_bytes
packet_hash_bytes ==
    /\ pc = "_packet_hash_bytes"
    /\ \/ /\ hash_bytes' = PacketHashBytes(packet, ether_layer).data
          /\ issue_categories' = issue_categories \o PacketHashBytes(packet, ether_layer).issues
          /\ Goto("_packet_hash")
          /\ UNCHANGED <<waiting_to_restart, packet, pipeline, ether_layer, packet_hash,
                         src_mac, issue_i, db, executes>>
       \/ Fails

\* _run, lines 180-181: the digest is assigned to packet_hash
run_packet_hash ==
    /\ pc = "_packet_hash"
    /\ packet_hash' = blake2s(hash_bytes)
    /\ Goto("src_mac")
    /\ UNCHANGED <<waiting_to_restart, packet, pipeline, issue_categories, ether_layer,
                   src_mac, hash_bytes, issue_i, db, executes>>

\* _run, lines 183-185
run_src_mac ==
    /\ pc = "src_mac"
    /\ src_mac' = IF ether_layer # None THEN lower(ether_layer.src) ELSE src_mac
    /\ Goto("raw_hset")
    /\ UNCHANGED <<waiting_to_restart, packet, pipeline, issue_categories, ether_layer,
                   packet_hash, hash_bytes, issue_i, db, executes>>

\* _record_raw_packet, line 241
record_raw_packet_hset ==
    /\ pc = "raw_hset"
    /\ Queue(hset(packet_key, RawPacketFields), "raw_hsetnx") \/ Fails

\* a _record_raw_packet that writes first_seen unconditionally
record_raw_packet_hsetnx_overwrites ==
    /\ pc = "raw_hsetnx"
    /\ Queue(hset(packet_key, [first_seen |-> packet.time]), "raw_hincrby") \/ Fails

\* _record_raw_packet, line 242
record_raw_packet_hsetnx ==
    /\ pc = "raw_hsetnx"
    /\ Queue(hsetnx(packet_key, "first_seen", packet.time), "raw_hincrby") \/ Fails

\* _record_raw_packet, line 243
record_raw_packet_hincrby ==
    /\ pc = "raw_hincrby"
    /\ Queue(hincrby(packet_key, "num_sightings", 1), "ether_check") \/ Fails

\* a _run that goes on to the device sighting without an Ether layer
run_ether_check_goes_on ==
    /\ pc = "ether_check"
    /\ Goto("dev_sadd")
    /\ UNCHANGED <<waiting_to_restart, processor, db, executes>>

\* _run, lines 189-190: without an Ether layer _run returns here
run_ether_check ==
    /\ pc = "ether_check"
    /\ Goto(IF ether_layer = None THEN "finally_sadd" ELSE "dev_sadd")
    /\ UNCHANGED <<waiting_to_restart, processor, db, executes>>

\* _record_device_sighting, line 248
record_device_sighting_sadd ==
    /\ pc = "dev_sadd"
    /\ Queue(sadd(<<"macs">>, src_mac), "dev_hset") \/ Fails

\* _record_device_sighting, line 251
record_device_sighting_hset ==
    /\ pc = "dev_hset"
    /\ Queue(hset(mac_key, common_fields), "dev_hsetnx") \/ Fails

\* _record_device_sighting, line 252
record_device_sighting_hsetnx ==
    /\ pc = "dev_hsetnx"
    /\ Queue(hsetnx(mac_key, "first_seen", packet.time), "dev_index") \/ Fails

\* _record_device_sighting, lines 254-255
record_device_sighting_index ==
    /\ pc = "dev_index"
    /\ Queue(hset(<<"macpkts", src_mac>>, packet_hash :> packet.time), "process_packet")
       \/ Fails

\* _run, line 196: the extension callback starts and queues its first operation
process_packet ==
    /\ pc = "process_packet"
    /\ Queue(ExtensionOps[1], "process_packet_body") \/ Fails

\* the callback queues its last operation and returns a value for display or
\* nothing (lines 111-112), or raises; _run returns that value (line 196)
process_packet_body ==
    /\ pc = "process_packet_body"
    /\ \/ /\ pipeline' = Append(pipeline, ExtensionOps[2])
          /\ \E r \in Results : callback_result' = r
          /\ pc' = "finally_sadd"
          /\ UNCHANGED <<waiting_to_restart, packet, issue_categories, ether_layer,
                         packet_hash, src_mac, hash_bytes, issue_i, db, executes,
                         exc, faults, counters, prn_result, invocation, shared>>
       \/ Fails

\* run, lines 162-163: one sadd per recorded category, then the clause ends
\* (an exception that entered the clause stays in exc and goes on outwards)
run_finally_sadd ==
    /\ pc = "finally_sadd"
    /\ \/ /\ issue_i <= Len(issue_categories)
          /\ pipeline' = Append(pipeline, sadd(issue_categories[issue_i], packet_hash))
          /\ issue_i' = issue_i + 1
          /\ Goto("finally_sadd")
          /\ UNCHANGED <<waiting_to_restart, packet, issue_categories, ether_layer,
                         packet_hash, src_mac, hash_bytes, db, executes>>
       \/ /\ issue_i <= Len(issue_categories)
          /\ Fails
       \/ /\ issue_i > Len(issue_categories)
          /\ Goto("finally_hset")
          /\ UNCHANGED <<waiting_to_restart, processor, db, executes>>

\* run, line 165: the heartbeat of this worker
run_finally_hset ==
    /\ pc = "finally_hset"
    /\ Queue(hset(<<"heartbeats">>, name :> packet.time), "finally_execute") \/ Fails

\* run, line 167: pipeline.execute() is called
run_finally_execute ==
    /\ pc = "finally_execute"
    /\ executes' = executes + 1
    /\ Goto("execute")
    /\ UNCHANGED <<waiting_to_restart, processor, db>>

\* What the store holds when a submission fails: the error came before the
\* batch reached the store, or with the replies after the store executed it.
Partial(d, ops) == {d, ApplyBatch(d, ops)}

\* pipeline.execute() returns, and run() ends with the exception that was
\* pending, if any; or it raises
execute ==
    /\ pc = "execute"
    /\ \/ /\ db' = ApplyBatch(db, pipeline)
          /\ pc' = IF exc # NoExc THEN "except" ELSE "finally_checkpoint"
          /\ prn_result' = IF exc # NoExc THEN prn_result ELSE run_returns(callback_result)
          /\ UNCHANGED <<exc, faults, counters, callback_result, invocation, shared>>
       \/ /\ db' \in Partial(db, pipeline)
          /\ Raises
    /\ UNCHANGED <<waiting_to_restart, processor, executes>>

\* ------------------------------------------------ _wrapped_process_packet
\* lines 133-134: the exception is logged and dropped
wrapped_process_packet_except ==
    /\ pc = "except"
    /\ exc' = IF Caught(exc) THEN NoExc ELSE exc
    /\ pc' = "finally_checkpoint"
    /\ UNCHANGED <<waiting_to_restart, processor, db, history, counters, returned,
                   invocation, shared>>

\* lines 135-136: the checkpoint; without a restart the wrapper returns to
\* sniff() and the PacketProcessor is dropped
wrapped_process_packet_finally ==
    /\ pc = "finally_checkpoint"
    /\ IF checkpoint_worker
         THEN /\ exc' = RestartWorker("checkpoint")
              /\ pc' = "main"
              /\ UNCHANGED <<processor, history, returned>>
         ELSE IF exc # NoExc
           THEN /\ pc' = "main"
                /\ UNCHANGED <<exc, processor, history, returned>>
           ELSE /\ pc' = "sniff"
                /\ FreshProcessor(NoPacket)
                /\ UNCHANGED exc
    /\ UNCHANGED <<waiting_to_restart, db, counters, invocation, shared>>

\* ---------------------------------------------------------------- Worker
\* main, lines 76-78: an exception left worker.run(); RestartWorker is caught,
\* anything else ends the process
main_except ==
    /\ pc = "main"
    /\ IF MainCatches(exc)
         THEN pc' = "RESTARTING" /\ exc' = NoExc
         ELSE pc' = "exited" /\ UNCHANGED exc
    /\ FreshProcessor(NoPacket)
    /\ UNCHANGED <<waiting_to_restart, db, counters, invocation, shared>>

\* a main that re-executes the interpreter without its arguments
execv_without_arguments ==
    /\ pc = "RESTARTING"
    /\ restarts < MaxRestarts
    /\ restarts' = restarts + 1
    /\ pc' = "sniff"
    /\ waiting_to_restart' = FALSE
    /\ received' = 0
    /\ argv' = <<cmd[1]>>
    /\ cmd' = argv'
    /\ UNCHANGED <<exc, processor, db, history, clock, signals, faulty, returned, shared>>

\* main, lines 79-83: os.execv replaces the process image; the new process
\* runs Worker.run again (lines 54-57) and sniffs
execv ==
    /\ pc = "RESTARTING"
    /\ restarts < MaxRestarts
    /\ restarts' = restarts + 1
    /\ pc' = "sniff"
    /\ waiting_to_restart' = FALSE
    /\ received' = 0
    /\ argv' = cmd
    /\ cmd' = argv'
    /\ UNCHANGED <<exc, processor, db, history, clock, signals, faulty, returned, shared>>

\* a handler that never sets the flag
handle_SIGHUP_forgets ==
    /\ UNCHANGED <<waiting_to_restart, pc, exc, processor, db, history, returned>>

\* a handler that restarts on the first signal
handle_SIGHUP_eager ==
    /\ waiting_to_restart' = TRUE
    /\ exc' = RestartWorker("handler")
    /\ pc' = Unwind(pc)
    /\ faults' = IF pc \in InWrapper THEN faults \cup {"SIGHUP"} ELSE faults
    /\ UNCHANGED <<processor, db, executes, returned>>

\* _handle_SIGHUP, lines 59-64, run between two statements of the process:
\* with the flag set _checkpoint_worker raises RestartWorker at the statement
\* that was interrupted, otherwise the flag is set
handle_SIGHUP ==
    IF waiting_to_restart
      THEN /\ checkpoint_worker
           /\ exc' = RestartWorker("handler")
           /\ pc' = Unwind(pc)
           /\ faults' = IF pc \in InWrapper THEN faults \cup {"SIGHUP"} ELSE faults
           /\ db' \in IF pc = "execute" THEN Partial(db, pipeline) ELSE {db}
           /\ UNCHANGED <<waiting_to_restart, processor, executes, returned>>
      ELSE /\ waiting_to_restart' = TRUE
           /\ UNCHANGED <<pc, exc, processor, db, history, returned>>

\* the operating system delivers a SIGHUP
SIGHUP ==
    /\ pc \notin {"main", "exited"}
    /\ signals < MaxSignals
    /\ signals' = signals + 1
    /\ received' = received + 1
    /\ handle_SIGHUP
    /\ UNCHANGED <<clock, restarts, faulty, invocation, shared>>

Next ==
    \/ sniff
    \/ run
    \/ run_first_layer
    \/ packet_hash_bytes
    \/ run_packet_hash
    \/ run_src_mac
    \/ record_raw_packet_hset
    \/ record_raw_packet_hsetnx
    \/ record_raw_packet_hincrby
    \/ run_ether_check
    \/ record_device_sighting_sadd
    \/ record_device_sighting_hset
    \/ record_device_sighting_hsetnx
    \/ record_device_sighting_index
    \/ process_packet
    \/ process_packet_body
    \/ run_finally_sadd
    \/ run_finally_hset
    \/ run_finally_execute
    \/ execute
    \/ wrapped_process_packet_except
    \/ wrapped_process_packet_finally
    \/ main_except
    \/ execv
    \/ SIGHUP

Spec == Init /\ [][Next]_vars

\* ------------------------------------------------------------ shared store
\* a _record_raw_packet that writes first_seen unconditionally
RecordRawPacket_overwrites(key, fields, time) ==
    << hset(key, fields), hset(key, [first_seen |-> time]),
       hincrby(key, "num_sightings", 1) >>

\* _record_raw_packet, lines 239-243: the three operations on the packet record
RecordRawPacket(key, fields, time) ==
    << hset(key, fields), hsetnx(key, "first_seen", time),
       hincrby(key, "num_sightings", 1) >>

\* the fingerprint of packet p (lines 206-230)
HashOf(p) == blake2s(PacketHashBytes(p, EtherLayerOf(p)).data)

\* The batch run() builds for packet p when no statement raises: the
\* operations of _run in order, the sadd of each issue, the heartbeat.
BatchOf(p) ==
    LET layer == EtherLayerOf(p)
        h == HashOf(p)
        key == <<"pkt", h>>
        mac == IF layer # None THEN lower(layer.src) ELSE NoMac
        common == [last_seen |-> p.time, last_seen_by |-> name,
                   last_seen_by_susan |-> p.time]
        raw == Merge(common, [raw_bytes |-> p.original, last_sniffed_on |-> p.sniffed_on])
        fields == IF mac # NoMac THEN Merge(raw, [last_seen_from |-> mac]) ELSE raw
        issues == (IF layer = None THEN <<record_issue("first_layer")>> ELSE <<>>)
                    \o PacketHashBytes(p, layer).issues
    IN  RecordRawPacket(key, fields, p.time)
          \o (IF layer = None THEN <<>>
               ELSE << sadd(<<"macs">>, mac),
                       hset(<<"mac", mac>>, common),
                       hsetnx(<<"mac", mac>>, "first_seen", p.time),
                       hset(<<"macpkts", mac>>, h :> p.time),
                       hset(<<"mac", mac>>, [ipv4 |-> "1.2.3.4"]),
                       expire(key, PACKET_TTL) >>)
          \o [i \in 1..Len(issues) |-> sadd(issues[i], h)]
          \o << hset(<<"heartbeats">>, name :> p.time) >>

\* the packets the worker processes see: two frames with one fingerprint and
\* a packet without an Ether layer
SharedCaptured ==
    {p \in Captured : p.original[2] = ETH_P_IP}

\* everything of the single worker process, which stands still here
worker == <<pc, waiting_to_restart, exc, processor, history, signals, received,
            restarts, faulty, returned, invocation>>

\* worker process w has processed a packet and calls pipeline.execute(): the
\* pipeline is not transactional (line 156), the store takes its operations
\* one by one
worker_submit(w) ==
    /\ inflight[w] = <<>>
    /\ clock < MaxBatches
    /\ \E c \in SharedCaptured :
         LET p == [link |-> c.link, src |-> c.src, original |-> c.original,
                   time |-> clock + 1, sniffed_on |-> "wlx0023cafebabe"]
             key == <<"pkt", HashOf(p)>>
         IN  /\ inflight' = [inflight EXCEPT ![w] = BatchOf(p)]
             /\ submitted' = IF key \in DOMAIN submitted
                               THEN [submitted EXCEPT ![key] = @ + 1]
                               ELSE submitted @@ (key :> 1)
    /\ clock' = clock + 1
    /\ UNCHANGED <<worker, db>>

\* the store executes the next operation of worker process w's batch
store_executes(w) ==
    /\ inflight[w] # <<>>
    /\ db' = ApplyOp(db, Head(inflight[w]))
    /\ inflight' = [inflight EXCEPT ![w] = Tail(@)]
    /\ UNCHANGED <<worker, clock, submitted>>

NextShared ==
    \/ \E w \in Workers : worker_submit(w)
    \/ \E w \in Workers : store_executes(w)

SharedStore == Init /\ [][NextShared]_vars

\* ================================================================ claims
\* run() has returned or raised and its PacketProcessor is still there
AfterRun == pc \in {"except", "finally_checkpoint", "main"} /\ packet # NoPacket

\* the handler raised RestartWorker while this packet was in the wrapper
Interrupted == "SIGHUP" \in faults

\* the statements of the extension callback
InCallback == {"process_packet", "process_packet_body"}

\* number of positions of ops that hold op
Count(ops, op) == Cardinality({i \in 1..Len(ops) : ops[i] = op})

heartbeat == hset(<<"heartbeats">>, "susan" :> packet.time)

\* C1: whatever statements of _run, of the sadd loop, of the heartbeat write
\* or execute() itself raise, pipeline.execute() has been called exactly once
\* when run() is left, and it is never called twice for a packet.
C1_SubmitExactlyOnce ==
    /\ executes <= 1
    /\ (AfterRun /\ ~Interrupted) => executes = 1

\* C1 witness: run() was left after three of its statements raised
C1_Witness ==
    /\ pc = "except"
    /\ ~Interrupted
    /\ Cardinality(faults) >= 3
    /\ executes = 1

\* C2: when the extension callback raises (and nothing that follows it in
\* building the batch does), the batch handed to execute() holds exactly one
\* sadd of the packet hash into the issue set of each recorded category and
\* the heartbeat of this worker, and execute() is called exactly once.
C2_CallbackRaises ==
    (/\ pc \in {"execute", "except", "finally_checkpoint", "main"}
     /\ faults \cap InCallback # {}
     /\ faults \subseteq InCallback \cup {"execute"})
    => /\ executes = 1
       /\ Count(pipeline, heartbeat) = 1
       /\ \A i \in 1..Len(issue_categories) :
            Count(pipeline, sadd(issue_categories[i], packet_hash)) = 1

\* C2 witness: the callback raised for a packet with a recorded category and
\* its batch has been submitted
C2_Witness ==
    /\ pc = "except"
    /\ faults = {"process_packet_body"}
    /\ issue_categories = <<record_issue("ether_payload")>>
    /\ executes = 1

\* the batch of a packet with an Ether layer whose processing completes
ExpectedBatch ==
    LET mac == "00:0d:f7:12:ca:fe"
        pkt == <<"pkt", packet_hash>>
        seen == [last_seen |-> packet.time, last_seen_by |-> "susan",
                 last_seen_by_susan |-> packet.time]
    IN  <<hset(pkt, [last_seen |-> packet.time, last_seen_by |-> "susan",
                     last_seen_by_susan |-> packet.time, raw_bytes |-> packet.original,
                     last_sniffed_on |-> packet.sniffed_on, last_seen_from |-> mac]),
          hsetnx(pkt, "first_seen", packet.time),
          hincrby(pkt, "num_sightings", 1),
          sadd(<<"macs">>, mac),
          hset(<<"mac", mac>>, seen),
          hsetnx(<<"mac", mac>>, "first_seen", packet.time),
          hset(<<"macpkts", mac>>, packet_hash :> packet.time)>>
        \o ExtensionOps
        \o [i \in 1..Len(issue_categories) |-> sadd(issue_categories[i], packet_hash)]
        \o <<heartbeat>>

\* C3: for a packet with an Ether layer whose processing completes normally,
\* the batch is, in this order, the packet record write with last_seen_from,
\* hsetnx first_seen, hincrby num_sightings 1, sadd of the lowercased source
\* address to macs, the device record write, its hsetnx first_seen, the
\* macpkts index write, the callback's operations, (the issue sadds,) the
\* heartbeat; execute() is called once, after all of them.
C3_BatchOrder ==
    (/\ pc \in {"execute", "finally_checkpoint"}
     /\ packet.link
     /\ faults = {}
     /\ exc = NoExc)
    => /\ pipeline = ExpectedBatch
       /\ executes = 1

\* C3 witness: the batch of the packet whose Ether layer reports its source
\* address in upper case has been submitted
C3_Witness ==
    /\ pc = "finally_checkpoint"
    /\ packet.link
    /\ packet.src = "00:0D:F7:12:CA:FE"
    /\ faults = {}
    /\ exc = NoExc
    /\ executes = 1
    /\ Len(pipeline) = 10

\* C4: a SIGHUP delivered while the flag is clear sets the flag and changes
\* nothing else: no exception is raised and the statement the process is at,
\* the batch and the store stay as they are.
C4_FirstSignalOnlySetsFlag ==
    [][(signals' # signals /\ ~waiting_to_restart)
         => /\ waiting_to_restart'
            /\ UNCHANGED <<pc, exc, processor, db, history>>]_vars

\* C4 witness: the only SIGHUP came while a packet was processed, and the
\* full batch of that packet was still built and submitted
C4_Witness ==
    /\ pc = "finally_checkpoint"
    /\ waiting_to_restart
    /\ received = 1
    /\ faults = {}
    /\ exc = NoExc
    /\ executes = 1
    /\ packet.link
    /\ pipeline = ExpectedBatch

\* C5 (as claimed): when a SIGHUP was delivered with the flag already set,
\* the RestartWorker that arrives in Worker.main is the one the signal
\* handler raised, wherever the process was interrupted.
C5_HandlerRestartReachesMain ==
    (pc = "main" /\ received >= 2) => exc = RestartWorker("handler")

\* C6: in a process image that has received exactly one SIGHUP, RestartWorker
\* is raised nowhere but at the checkpoint of the wrapper, after execute() was
\* called for the packet and returned or raised.
C6_RestartAfterSubmit ==
    /\ (received <= 1 /\ exc.type = "RestartWorker") => pc = "main"
    /\ (pc = "main" /\ received = 1)
         => /\ exc = RestartWorker("checkpoint")
            /\ packet # NoPacket
            /\ executes = 1

\* C6 witness: after a single SIGHUP the checkpoint raised, the submission of
\* the packet in flight having raised
C6_Witness ==
    /\ pc = "main"
    /\ received = 1
    /\ exc = RestartWorker("checkpoint")
    /\ "execute" \in faults
    /\ executes = 1

\* C7: an exception raised by a statement of packet processing (execute()
\* included) is dropped by the wrapper's except clause: what arrives in
\* Worker.main is only ever RestartWorker, and with the flag clear the wrapper
\* returns to sniff() for the next packet.
C7_FailuresContained ==
    /\ [](pc = "main" => exc.type = "RestartWorker")
    /\ [](pc = "finally_checkpoint" => exc.type # "Exception")
    /\ [][(pc = "finally_checkpoint" /\ ~waiting_to_restart /\ pc' # pc)
            => (pc' = "sniff" /\ exc' = NoExc)]_vars

\* C7 witness: the submission of a packet raised, the exception was dropped
\* and the wrapper is about to return with no restart pending
C7_Witness ==
    /\ pc = "finally_checkpoint"
    /\ "execute" \in faults
    /\ exc = NoExc
    /\ ~waiting_to_restart

\* num_sightings of a record, 0 when the field is absent
NumSightings(d, key) ==
    IF HasField(d, key, "num_sightings") THEN d[key]["num_sightings"] ELSE 0

\* C8: when the batch of a normally processed packet is executed and the
\* store already holds a record under the packet's key, the record's
\* first_seen stays as it is, its last_seen becomes the (later) time of this
\* packet and its num_sightings grows by exactly 1.
C8_Replay ==
    [][(/\ pc = "execute"
        /\ pc' = "finally_checkpoint"
        /\ faults = {}
        /\ packet_key \in DOMAIN db)
         => /\ HasField(db, packet_key, "first_seen")
                 => db'[packet_key]["first_seen"] = db[packet_key]["first_seen"]
            /\ db'[packet_key]["last_seen"] = packet.time
            /\ db'[packet_key]["last_seen"] > db[packet_key]["last_seen"]
            /\ NumSightings(db', packet_key) = NumSightings(db, packet_key) + 1]_vars

\* C8 witness: a packet was recorded at time 1 and replayed at time 2
C8_Witness ==
    /\ pc = "finally_checkpoint"
    /\ faults = {}
    /\ packet.time = 2
    /\ HasField(db, packet_key, "num_sightings")
    /\ db[packet_key]["num_sightings"] = 2
    /\ db[packet_key]["first_seen"] = 1
    /\ db[packet_key]["last_seen"] = 2

\* frame o with the IPv4 identification at position i and the header checksum
\* after it replaced by the sentinels
Canonical(o, i) == [o EXCEPT ![i] = 57005, ![i + 1] = 48879]

first_layer == <<"unhandled:pkts", "first_layer">>
ether_payload == <<"unhandled:pkts", "ether_payload">>

\* the packet has been fingerprinted as data with the issues recorded
Fingerprinted(data, issues) ==
    /\ hash_bytes = data
    /\ packet_hash = <<"blake2s", data>>
    /\ issue_categories = issues

Encapsulated(o) == o[2] = ETH_P_IPV6 /\ o[3] = IPPROTO_IPIP

SameButIdAndChecksum(a, b) ==
    /\ Len(a) = Len(b)
    /\ Len(a) >= 4
    /\ a[2] = ETH_P_IP
    /\ \A i \in 1..Len(a) : i \notin {3, 4} => a[i] = b[i]

\* the packet records of the store written for packets with an Ether layer
EtherRecords ==
    {k \in DOMAIN db : /\ k[1] = "pkt"
                       /\ HasField(db, k, "raw_bytes")
                       /\ HasField(db, k, "last_seen_from")}

\* C10: a packet with an Ether layer whose frame differs from the frame of a
\* recorded Ethernet/IPv4 packet only in identification and checksum has the
\* key of that record; and once its batch is executed the record's raw_bytes
\* are the packet's own original bytes, not the canonical copy.
C10_SameFingerprint ==
    /\ (pc \in RunBody \ {"_run", "_packet_hash_bytes", "_packet_hash"} /\ packet.link)
         => \A k \in EtherRecords :
              SameButIdAndChecksum(db[k]["raw_bytes"], packet.original) => k = packet_key
    /\ (pc = "finally_checkpoint" /\ faults = {} /\ exc = NoExc)
         => db[packet_key]["raw_bytes"] = packet.original

\* C10 witness: the second of two frames that differ in identification and
\* checksum was recorded under the key of the first
C10_Witness ==
    /\ pc = "finally_checkpoint"
    /\ faults = {}
    /\ packet.original = <<1, ETH_P_IP, 2, 4, 7>>
    /\ db[packet_key]["raw_bytes"] = <<1, ETH_P_IP, 2, 4, 7>>
    /\ db[packet_key]["first_seen"] = 1
    /\ db[packet_key]["num_sightings"] = 2
    /\ db[<<"mac", "00:0d:f7:12:ca:fe">>]["first_seen"] = 1

\* C11 (as claimed): when a packet was processed without an exception, the
\* value the wrapper gives back to sniff() is the value the extension callback
\* returned, so that a non-empty result is displayed.
C11_CallbackResultReturned ==
    (pc = "finally_checkpoint" /\ faults = {} /\ exc = NoExc /\ packet.link)
      => prn_result = callback_result

\* C12 (as claimed): the batch of a link-layer packet that was processed
\* without an exception holds a write of the interfaces hash, interface name
\* to packet time, right after the num_sightings increment and before the
\* addition of the source address to the macs set.
C12_InterfaceRecorded ==
    (pc = "finally_checkpoint" /\ faults = {} /\ exc = NoExc /\ packet.link)
      => \E i \in 2..(Len(pipeline) - 1) :
           /\ pipeline[i] = hset(<<"interfaces">>, packet.sniffed_on :> packet.time)
           /\ pipeline[i - 1] = hincrby(packet_key, "num_sightings", 1)
           /\ pipeline[i + 1] = sadd(<<"macs">>, src_mac)

\* the batch of a packet without an Ether layer, written out
NoLinkBatch ==
    << [cmd |-> "hset", key |-> <<"pkt", <<"blake2s", packet.original>>>>,
        val |-> [last_seen |-> packet.time, last_seen_by |-> "susan",
                 last_seen_by_susan |-> packet.time, raw_bytes |-> packet.original,
                 last_sniffed_on |-> packet.sniffed_on]],
       [cmd |-> "hsetnx", key |-> <<"pkt", <<"blake2s", packet.original>>>>,
        val |-> <<"first_seen", packet.time>>],
       [cmd |-> "hincrby", key |-> <<"pkt", <<"blake2s", packet.original>>>>,
        val |-> <<"num_sightings", 1>>],
       [cmd |-> "sadd", key |-> <<"unhandled:pkts", "first_layer">>,
        val |-> <<"blake2s", packet.original>>],
       [cmd |-> "hset", key |-> <<"heartbeats">>, val |-> "susan" :> packet.time] >>

\* C13: for a packet without an Ether layer that is processed without an
\* exception, the submitted batch is exactly: the packet record write without
\* last_seen_from, hsetnx of first_seen, hincrby of num_sightings, sadd of the
\* packet hash to the first_layer issue set, the heartbeat; no statement of
\* the device sighting or of the extension callback is ever reached.
C13_NoLinkBatch ==
    /\ ~packet.link =>
         pc \notin {"dev_sadd", "dev_hset", "dev_hsetnx", "dev_index",
                    "process_packet", "process_packet_body"}
    /\ (/\ pc \in {"execute", "finally_checkpoint"}
        /\ ~packet.link
        /\ faults = {})
         => /\ pipeline = NoLinkBatch
            /\ callback_result = NoResult

\* C13 witness: the batch of a packet without an Ether layer was executed
C13_Witness ==
    /\ pc = "finally_checkpoint"
    /\ packet # NoPacket
    /\ ~packet.link
    /\ faults = {}
    /\ Len(pipeline) = 5
    /\ <<"unhandled:pkts", "first_layer">> \in DOMAIN db

\* pipeline.execute() has been called for the packet in flight
Submitting == pc \in {"execute", "except", "finally_checkpoint", "main"} /\ packet # NoPacket

\* C14: when an sadd of the issue loop raises, the heartbeat is still queued
\* and execute() is still called; when the heartbeat write raises, execute()
\* is still called; and a batch on which execute() was called and that holds
\* the heartbeat holds it once, as its last operation.
C14_HeartbeatAfterIssues ==
    /\ (Submitting /\ ~Interrupted /\ "finally_sadd" \in faults /\ "finally_hset" \notin faults)
         => /\ executes = 1
            /\ Count(pipeline, heartbeat) = 1
    /\ (Submitting /\ ~Interrupted /\ "finally_hset" \in faults)
         => executes = 1
    /\ (executes >= 1 /\ Count(pipeline, heartbeat) > 0)
         => /\ Count(pipeline, heartbeat) = 1
            /\ pipeline[Len(pipeline)] = heartbeat

\* C14 witness: an sadd of the issue loop raised and the batch, ending with
\* the heartbeat, was executed by the store
C14_Witness ==
    /\ pc = "finally_checkpoint"
    /\ faults = {"finally_sadd"}
    /\ executes = 1
    /\ pipeline[Len(pipeline)] = heartbeat
    /\ <<"heartbeats">> \in DOMAIN db

\* C15 (as claimed): when the SIGHUP that forces the restart interrupts a
\* statement of run() after the pipeline was created, run() is not left before
\* pipeline.execute() has been called once for the packet.
C15_ForcedRestartSubmits ==
    [][(/\ signals' # signals
        /\ waiting_to_restart
        /\ pc \in InRun \ {"run"})
         => (executes' = 1 \/ pc' \in InRun)]_vars

\* the batch the statements of run() queue is the batch BatchOf gives
BatchAgrees ==
    (pc = "execute" /\ faults = {}) => pipeline = BatchOf(packet)

\* C16: with the operations of the batches of several worker processes
\* executed by the store in any interleaving, first_seen of a packet record
\* never changes once it is set, and when every batch has been executed the
\* record's num_sightings is the number of batches submitted for its key.
C16_SharedStore ==
    /\ [][\A k \in DOMAIN db :
            (k[1] = "pkt" /\ HasField(db, k, "first_seen"))
              => db'[k]["first_seen"] = db[k]["first_seen"]]_vars
    /\ []((\A w \in Workers : inflight[w] = <<>>)
            => \A k \in DOMAIN submitted : db[k]["num_sightings"] = submitted[k])

\* C16 witness: the first of two batches for one packet key wrote the
\* record, the second overtook it and set first_seen, and both are executed
C16_Witness ==
    /\ \A w \in Workers : inflight[w] = <<>>
    /\ \E k \in DOMAIN submitted :
         /\ submitted[k] = 2
         /\ db[k]["num_sightings"] = 2
         /\ db[k]["first_seen"] = 2
         /\ db[k]["last_seen"] = 2

\* C17: Worker._cmd is the invocation vector of the process and no step
\* changes it; os.execv is given exactly that vector; and the SIGHUP that
\* finds the flag clear changes nothing of the worker but the flag.
C17_InvocationKept ==
    /\ [](cmd = Invocation)
    /\ [][restarts' # restarts => argv' = cmd]_vars
    /\ [][(signals' # signals /\ ~waiting_to_restart)
            => /\ waiting_to_restart'
               /\ UNCHANGED <<pc, exc, processor, history, returned, invocation, db>>]_vars

\* C17 witness: after two SIGHUPs and a packet that failed the process was
\* re-executed with the vector it was started with
C17_Witness ==
    /\ restarts = 1
    /\ signals = 2
    /\ faulty
    /\ pc = "sniff"
    /\ argv = <<"/usr/bin/python3", "susan.py", "--verbose">>
    /\ cmd = argv

\* C18: the wrapper is only ever left through its checkpoint; with the flag
\* set the checkpoint raises RestartWorker into Worker.main, whether the
\* packet succeeded or failed; control returns to sniff() only with the flag
\* clear, and the flag is cleared by nothing but the re-execution: so no
\* second packet is finished once the flag is set.
C18_CheckpointAfterEveryPacket ==
    /\ [][(pc \in InWrapper /\ pc' \notin InWrapper) => pc = "finally_checkpoint"]_vars
    /\ [][(pc = "finally_checkpoint" /\ waiting_to_restart /\ pc' # pc)
            => (pc' = "main" /\ exc'.type = "RestartWorker")]_vars
    /\ [][(pc # "sniff" /\ pc' = "sniff") => ~waiting_to_restart']_vars
    /\ [][(waiting_to_restart /\ ~waiting_to_restart') => restarts' # restarts]_vars

\* C18 witness: the flag was set while a packet was in flight, the extension
\* callback raised, and the checkpoint after that packet raised the restart
C18_Witness ==
    /\ pc = "main"
    /\ received = 1
    /\ faults = {"process_packet"}
    /\ exc = RestartWorker("checkpoint")
    /\ executes = 1

\* C19 (as claimed): in a batch on which execute() is called, every sadd to
\* an issue set has the packet's fingerprint as its member, never the None
\* packet_hash has before it is assigned.
C19_IssuesKeyedByHash ==
    executes >= 1 =>
      \A i \in 1..Len(pipeline) :
        (pipeline[i].cmd = "sadd" /\ pipeline[i].key[1] = "unhandled:pkts")
          => pipeline[i].val # NoHash

\* C20 (as claimed), its consequence for a worker that has reached
\* RESTARTING: it re-executes itself, nothing but os.execv takes it from there.
C20_RestartingReexecutes ==
    [][pc = "RESTARTING" => (pc' = "RESTARTING" \/ restarts' = restarts + 1)]_vars

\* With the flag set and the worker waiting in sniff(), nothing happens unless
\* a packet or a signal arrives.
PendingStaysPending ==
    [][(pc = "sniff" /\ waiting_to_restart) => (clock' # clock \/ signals' # signals)]_vars

====
